---- MODULE Spec2Model ----
(***************************************************************************)
(* A model of the glean derivation engine of src/main.py: the batch        *)
(* pipeline concat_gleans, which reads the invoice and line_item tables,   *)
(* runs the five detectors D1..D5 on them and concatenates their output.   *)
(*                                                                         *)
(* Representation.                                                         *)
(*  - A calendar date is the number of days since 2020-01-01 (day 0); the  *)
(*    Gregorian calendar of the years 2020.. is tabulated below, so month  *)
(*    lengths, the leap day and quarter boundaries are the real ones.      *)
(*  - A nullable value (NaT, NaN, None) is a set of at most one element:   *)
(*    {} is null, {x} is the value x.                                     *)
(*  - A table (DataFrame) is a sequence of records, in row order.          *)
(*  - Vendor and invoice ids are integers; their order is the order pandas *)
(*    sorts the ids in.  Amounts are integers, for which the float         *)
(*    arithmetic of the source is exact.                                   *)
(*  - glean_text is the tuple of the template's name and the values        *)
(*    substituted into it (for T3 the total and the window's sum, of which *)
(*    the text prints the ratio).                                          *)
(***************************************************************************)
EXTENDS Integers, Sequences, FiniteSets, TLC

\* ------------------------------------------------------------------ bounds

\* Number of calendar years tabulated, from 2020.
NumYears == 2

\* Largest number of rows of the invoice table.
MaxInvoices == 3

\* Largest number of rows of the line_item table.
MaxLineItems == 2

\* ---------------------------------------------------------------- calendar

IsLeap(y) == (y % 4 = 0 /\ y % 100 # 0) \/ y % 400 = 0

DaysInMonth(y, m) ==
  IF m = 2 THEN (IF IsLeap(y) THEN 29 ELSE 28)
  ELSE IF m \in {4, 6, 9, 11} THEN 30 ELSE 31

NumMonths == 12 * NumYears

\* Year and month-of-year (1..12) of the month with index mi (0 = 2020-01).
YearOfIdx(mi) == 2020 + (mi \div 12)

MonthOfIdx(mi) == (mi % 12) + 1

\* MonthStart[mi]: the date of the first day of month mi.
MonthStart[mi \in 0..NumMonths] ==
  IF mi = 0 THEN 0
  ELSE MonthStart[mi - 1] + DaysInMonth(YearOfIdx(mi - 1), MonthOfIdx(mi - 1))

LastDay == MonthStart[NumMonths] - 1

\* MonthIdx[d]: the index of the month the date d lies in.
MonthIdx[d \in 0..LastDay] ==
  CHOOSE mi \in 0..(NumMonths - 1) : MonthStart[mi] <= d /\ d < MonthStart[mi + 1]

\* The date y-m-d.
Date(y, m, d) == MonthStart[(y - 2020) * 12 + (m - 1)] + (d - 1)

\* Timestamp.replace(day=1).
month_start(d) == MonthStart[MonthIdx[d]]

\* month start + pd.DateOffset(months=1).
add_month(ms) == MonthStart[MonthIdx[ms] + 1]

\* Timestamp.day.
day_of_month(d) == d - month_start(d) + 1

\* Timestamp.year, Timestamp.month, Timestamp.quarter.
year(d) == YearOfIdx(MonthIdx[d])

month(d) == MonthOfIdx(MonthIdx[d])

quarter(d) == ((month(d) - 1) \div 3) + 1

\* x.replace(day=1, month={1: 1, 2: 4, 3: 7, 4: 10}[x.quarter]).
quarter_start(d) == MonthStart[MonthIdx[d] - ((month(d) - 1) % 3)]

\* (date - quarter reset).dt.days + 1.
day_of_quarter(d) == d - quarter_start(d) + 1

\* pd.date_range(start, end, freq='MS' | 'QS' | 'D'), as ascending sequences.
RECURSIVE SeqOfSet(_)
SeqOfSet(S) ==
  IF S = {} THEN <<>>
  ELSE LET lo == CHOOSE x \in S : \A y \in S : x <= y
       IN  <<lo>> \o SeqOfSet(S \ {lo})

date_range_MS(start, end) ==
  SeqOfSet({MonthStart[mi] : mi \in {k \in 0..(NumMonths - 1) :
                                      start <= MonthStart[k] /\ MonthStart[k] <= end}})

date_range_QS(start, end) ==
  SeqOfSet({MonthStart[mi] : mi \in {k \in 0..(NumMonths - 1) :
                                      /\ k % 3 = 0
                                      /\ start <= MonthStart[k]
                                      /\ MonthStart[k] <= end}})

date_range_D(start, end) == [i \in 1..(end - start + 1) |-> start + i - 1]

\* ----------------------------------------------------------------- helpers

Range(s) == {s[i] : i \in DOMAIN s}

Max(S) == CHOOSE x \in S : \A y \in S : y <= x

Min(S) == CHOOSE x \in S : \A y \in S : x <= y

\* max / min of nullable values, skipping nulls; null when all are null.
NullMax(S) == IF S = {} THEN {} ELSE {Max(S)}

NullMin(S) == IF S = {} THEN {} ELSE {Min(S)}

RECURSIVE SumOver(_, _)
SumOver(s, I) ==
  IF I = {} THEN 0
  ELSE LET i == CHOOSE j \in I : TRUE IN s[i] + SumOver(s, I \ {i})

RECURSIVE Concat(_)
Concat(ss) == IF ss = <<>> THEN <<>> ELSE Head(ss) \o Concat(Tail(ss))

\* np.round: n / d rounded to the nearest integer, halves to even. For the
\* sentinel gap of -1 day the value is never printed.
RoundDiv(n, d) ==
  LET q == n \div d
      r == n % d
  IN  IF 2 * r > d \/ (2 * r = d /\ q % 2 = 1) THEN q + 1 ELSE q

\* Series.unique(): the distinct values in order of first appearance.
unique(s) ==
  LET first == {i \in DOMAIN s : \A j \in 1..(i - 1) : s[j] # s[i]}
      idx == SeqOfSet(first)
  IN  [k \in DOMAIN idx |-> s[idx[k]]]

\* value_counts().index[0] if count() > 0 else 0: the most frequent value,
\* the first in order of first appearance among those tied.
mode(s) ==
  IF s = <<>> THEN 0
  ELSE LET cnt(v) == Cardinality({i \in DOMAIN s : s[i] = v})
           best == {i \in DOMAIN s : \A j \in DOMAIN s : cnt(s[j]) <= cnt(s[i])}
       IN  s[Min(best)]

\* ------------------------------------------------------------------- state

VARIABLES
  pc,            \* position of concat_gleans
  raw_invoice,   \* raw_data/invoice.csv
  raw_line_item, \* raw_data/line_item.csv
  invoice_df,    \* the parsed invoice table
  line_item_df,  \* the parsed line_item table
  glean1, glean2, glean3, glean4, glean5,  \* the detectors' outputs
  glean_result   \* the output table

vars == <<pc, raw_invoice, raw_line_item, invoice_df, line_item_df,
          glean1, glean2, glean3, glean4, glean5, glean_result>>

\* -------------------------------------------------------------------- read

\* pd.to_datetime(..., format='%Y-%m-%d', errors='coerce'): a raw date field
\* is the tuple <<y, m, d>> of the numbers it spells, or <<>> when it is
\* empty; a field that spells no date of the calendar becomes NaT.
to_datetime(raw) ==
  IF /\ Len(raw) = 3
     /\ raw[1] \in 2020..(2020 + NumYears - 1)
     /\ raw[2] \in 1..12
     /\ raw[3] \in 1..DaysInMonth(raw[1], raw[2])
  THEN {Date(raw[1], raw[2], raw[3])}
  ELSE {}

read_invoice(raw) ==
  [i \in DOMAIN raw |->
     [invoice_id |-> raw[i].invoice_id,
      canonical_vendor_id |-> raw[i].canonical_vendor_id,
      invoice_date |-> CHOOSE d \in to_datetime(raw[i].invoice_date) : TRUE,
      period_end_date |-> to_datetime(raw[i].period_end_date),
      total_amount |-> raw[i].total_amount]]

read_line_item(raw) ==
  [i \in DOMAIN raw |->
     [invoice_id |-> raw[i].invoice_id,
      period_end_date |-> to_datetime(raw[i].period_end_date)]]

\* ---------------------------------------------------------------------- D1

\* Glean, had the invoice_id column been left out of the delivered columns.
Glean_without_id(date, text, type, location, id, vendor) ==
  [glean_date |-> date, glean_text |-> text, glean_type |-> type,
   glean_location |-> location, invoice_id |-> {}, canonical_vendor_id |-> vendor]

Glean(date, text, type, location, id, vendor) ==
  [glean_date |-> date, glean_text |-> text, glean_type |-> type,
   glean_location |-> location, invoice_id |-> id, canonical_vendor_id |-> vendor]

\* The gap in days a vendor may stay unseen without a glean.
NotSeenDays == 90

\* df.sort_values(by=['canonical_vendor_id', 'invoice_date']): a stable sort.
sort_by_vendor_date(df) ==
  LET before(i, j) ==
        \/ df[i].canonical_vendor_id < df[j].canonical_vendor_id
        \/ /\ df[i].canonical_vendor_id = df[j].canonical_vendor_id
           /\ \/ df[i].invoice_date < df[j].invoice_date
              \/ df[i].invoice_date = df[j].invoice_date /\ i < j
      rank(i) == Cardinality({j \in DOMAIN df : before(j, i)}) + 1
  IN  [k \in DOMAIN df |-> df[CHOOSE i \in DOMAIN df : rank(i) = k]]

\* groupby('canonical_vendor_id')['invoice_date'].agg('diff')
\*   .fillna(pd.Timedelta(days=-1)), in days, of a sorted table.
diff_days(df) ==
  [k \in DOMAIN df |->
     IF k > 1 /\ df[k - 1].canonical_vendor_id = df[k].canonical_vendor_id
     THEN df[k].invoice_date - df[k - 1].invoice_date
     ELSE -1]

\* D1_fires, had the comparison been >=.
D1_fires_inclusive(gap) == gap >= NotSeenDays

D1_fires(gap) == gap > NotSeenDays

vendor_not_seen_in_a_while(invoice) ==
  LET df == sort_by_vendor_date(invoice)
      gap == diff_days(df)
      rows == [k \in DOMAIN df |->
                 Glean(df[k].invoice_date,
                       <<"T1", RoundDiv(gap[k] * 100, 30), df[k].canonical_vendor_id>>,
                       1, 1, {df[k].invoice_id}, df[k].canonical_vendor_id)]
      keep == SeqOfSet({k \in DOMAIN df : D1_fires(gap[k])})
  IN  [n \in DOMAIN keep |-> rows[keep[n]]]

\* ---------------------------------------------------------------------- D2

\* latest_period_end_date, had the invoice's own period_end_date been left
\* out of the maximum.
latest_period_end_date_items(invoice, line_item, id) ==
  NullMax(UNION {line_item[j].period_end_date :
                   j \in {k \in DOMAIN line_item :
                            /\ line_item[k].invoice_id = id
                            /\ \E i \in DOMAIN invoice : invoice[i].invoice_id = id}})

\* invoice.merge(line_item, on='invoice_id', how='left'), then the row-wise
\* max of the two period_end_date columns, then the max by invoice_id: the
\* latest of the invoice's own end date and its line items' (nulls skipped).
latest_period_end_date(invoice, line_item, id) ==
  NullMax(UNION ({invoice[i].period_end_date :
                    i \in {k \in DOMAIN invoice : invoice[k].invoice_id = id}}
                 \cup
                 {line_item[j].period_end_date :
                    j \in {k \in DOMAIN line_item :
                             /\ line_item[k].invoice_id = id
                             /\ \E i \in DOMAIN invoice : invoice[i].invoice_id = id}}))

\* The days a period may end after the invoice date without a glean.
AccrualDays == 90

D2_fires(latest, invoice_date) ==
  latest # {} /\ (CHOOSE e \in latest : TRUE) - invoice_date > AccrualDays

accrual_alert(invoice, line_item) ==
  LET latest == [i \in DOMAIN invoice |->
                   latest_period_end_date(invoice, line_item, invoice[i].invoice_id)]
      rows == [i \in DOMAIN invoice |->
                 Glean(invoice[i].invoice_date,
                       <<"T2", invoice[i].canonical_vendor_id, latest[i]>>,
                       2, 1, {invoice[i].invoice_id}, invoice[i].canonical_vendor_id)]
      keep == SeqOfSet({i \in DOMAIN invoice : D2_fires(latest[i], invoice[i].invoice_date)})
  IN  [n \in DOMAIN keep |-> rows[keep[n]]]

\* ------------------------------------------------- shared by D3, D4 and D5

Column(df, name) == [i \in DOMAIN df |-> df[i][name]]

\* invoice['invoice_date'].min().replace(day=1)
min_invoice_date(invoice) == month_start(Min(Range(Column(invoice, "invoice_date"))))

\* max_invoice_date, had two months been added.
max_invoice_date_two_months(invoice) ==
  add_month(add_month(month_start(Max(Range(Column(invoice, "invoice_date"))))))

\* invoice['invoice_date'].max().replace(day=1) + pd.DateOffset(months=1)
max_invoice_date(invoice) == add_month(month_start(Max(Range(Column(invoice, "invoice_date")))))

\* groupby(vendor)[col].rolling(window).mean() of one vendor's series, as the
\* window's sum: null at the first window-1 positions.
rolling_sum(s, window) ==
  [k \in DOMAIN s |->
     IF k >= window THEN {SumOver(s, (k - window + 1)..k)} ELSE {}]

\* Series.shift(1) over the whole frame.
shift(s) == [r \in DOMAIN s |-> IF r = 1 THEN {} ELSE s[r - 1]]

\* ---------------------------------------------------------------------- D3

MeanWindow == 12

LowAmount == 100

MidAmount == 1000

HighAmount == 10000

\* lmi_mtd, had the bands included their boundaries.
lmi_mtd_inclusive(x, s) ==
  LET gt(a, b) == s # {} /\ a * x > b * (CHOOSE t \in s : TRUE)
      condition1 == x >= HighAmount /\ gt(2 * MeanWindow, 1)
      condition2 == x < HighAmount /\ x >= MidAmount /\ gt(MeanWindow, 2)
      condition3 == x < MidAmount /\ gt(MeanWindow, 5)
      condition4 == x < LowAmount
  IN  IF condition4 THEN FALSE
      ELSE condition1 \/ condition2 \/ condition3

\* lmi_mtd: x is total_amount, s the window's sum (twelve_month_avg =
\* s / MeanWindow), null while the window is not full; a comparison with NaN
\* is false.
lmi_mtd(x, s) ==
  LET gt(a, b) == s # {} /\ a * x > b * (CHOOSE t \in s : TRUE)
      condition1 == x > HighAmount /\ gt(2 * MeanWindow, 1)
      condition2 == x < HighAmount /\ x > MidAmount /\ gt(MeanWindow, 2)
      condition3 == x < MidAmount /\ gt(MeanWindow, 5)
      condition4 == x < LowAmount
  IN  IF condition4 THEN FALSE
      ELSE condition1 \/ condition2 \/ condition3

large_month_increase_mtd(invoice) ==
  LET date_range == date_range_MS(min_invoice_date(invoice), max_invoice_date(invoice))
      vendors == SeqOfSet(Range(unique(Column(invoice, "canonical_vendor_id"))))
      M == Len(date_range)
      total_amount == [v \in Range(vendors) |-> [k \in 1..M |->
          SumOver(Column(invoice, "total_amount"),
                  {i \in DOMAIN invoice :
                     /\ invoice[i].canonical_vendor_id = v
                     /\ month_start(invoice[i].invoice_date) = date_range[k]})]]
      twelve_month == [v \in Range(vendors) |-> rolling_sum(total_amount[v], MeanWindow)]
      rows == [r \in 1..(Len(vendors) * M) |->
                 LET v == vendors[((r - 1) \div M) + 1]
                     k == ((r - 1) % M) + 1
                 IN  [vendor |-> v, date |-> date_range[k],
                      x |-> total_amount[v][k], s |-> twelve_month[v][k]]]
      keep == SelectSeq(rows, LAMBDA row : lmi_mtd(row.x, row.s))
  IN  [n \in DOMAIN keep |->
         LET row == keep[n]
         IN  Glean(row.date, <<"T3", row.vendor, row.x, row.s>>, 3, 2, {}, row.vendor)]

\* ---------------------------------------------------------------------- D4

MonthWindow == 3

\* The start of the period of d and the day of d in its period, the period
\* being the month (freq "MS") or the quarter (freq "QS").
reset(freq, d) == IF freq = "MS" THEN month_start(d) ELSE quarter_start(d)

day_of(freq, d) == IF freq = "MS" THEN day_of_month(d) ELSE day_of_quarter(d)

\* most_frequent_day_dict: by vendor, the mode of day_of(invoice_date) over
\* the vendor's rows, in row order.
most_frequent_day(invoice, v, freq) ==
  LET rows == SeqOfSet({i \in DOMAIN invoice : invoice[i].canonical_vendor_id = v})
  IN  mode([n \in DOMAIN rows |-> day_of(freq, invoice[rows[n]].invoice_date)])

\* df2.groupby([vendor, reset])['invoice_date'].agg('min'): the first invoice
\* date of vendor v in the period that starts at p, null when there is none.
first_invoice_date(invoice, v, p, freq) ==
  NullMin({invoice[i].invoice_date :
             i \in {k \in DOMAIN invoice :
                      /\ invoice[k].canonical_vendor_id = v
                      /\ reset(freq, invoice[k].invoice_date) = p}})

\* The frame by (vendor, period), sorted by vendor then period, after the
\* rolling mean by vendor and the shift: a sequence of rows
\* [vendor, period, invoice_bool, consecutive, invoice_date], where
\* consecutive is the window's sum (the mean is 1 iff the sum is the window).
period_frame(invoice, grid, freq, window) ==
  LET vendors == SeqOfSet(Range(unique(Column(invoice, "canonical_vendor_id"))))
      M == Len(grid)
      first == [v \in Range(vendors) |-> [k \in 1..M |->
                  first_invoice_date(invoice, v, grid[k], freq)]]
      invoice_bool == [v \in Range(vendors) |-> [k \in 1..M |->
                         IF first[v][k] = {} THEN 0 ELSE 1]]
      rolling == [v \in Range(vendors) |-> rolling_sum(invoice_bool[v], window)]
      vendor_of(r) == vendors[((r - 1) \div M) + 1]
      k_of(r) == ((r - 1) % M) + 1
      consecutive == shift([r \in 1..(Len(vendors) * M) |-> rolling[vendor_of(r)][k_of(r)]])
  IN  [r \in 1..(Len(vendors) * M) |->
         [vendor |-> vendor_of(r), period |-> grid[k_of(r)],
          invoice_bool |-> invoice_bool[vendor_of(r)][k_of(r)],
          consecutive |-> consecutive[r],
          invoice_date |-> first[vendor_of(r)][k_of(r)]]]

\* df.merge(daily_dates, on=[vendor, reset], how='right'): a row per vendor
\* (in order of first appearance) and day; the columns of the frame are null
\* where the frame has no row for the day's period.
daily_frame(invoice, frame, freq) ==
  LET vendors == unique(Column(invoice, "canonical_vendor_id"))
      days == date_range_D(min_invoice_date(invoice), max_invoice_date(invoice))
      D == Len(days)
      \* the merge's index of the frame's rows by key (@@ builds the table once)
      index == [key \in {<<frame[r].vendor, frame[r].period>> : r \in DOMAIN frame} |->
                  CHOOSE r \in DOMAIN frame : <<frame[r].vendor, frame[r].period>> = key]
               @@ <<>>
  IN  [n \in 1..(Len(vendors) * D) |->
         LET v == vendors[((n - 1) \div D) + 1]
             d == days[((n - 1) % D) + 1]
             hit == IF <<v, reset(freq, d)>> \in DOMAIN index
                    THEN {index[<<v, reset(freq, d)>>]} ELSE {}
         IN  [vendor |-> v, daily_date |-> d,
              invoice_bool |-> {frame[r].invoice_bool : r \in hit},
              consecutive |-> UNION {frame[r].consecutive : r \in hit},
              invoice_date |-> UNION {frame[r].invoice_date : r \in hit}]]

\* alarm_no_invoice_monthly, had condition6 been >=.
alarm_no_invoice_monthly_through(row, most_frequent_day_dict) ==
  LET date == row.daily_date
      condition1 == row.invoice_bool = {0}
      condition2 == row.consecutive = {MonthWindow}
      condition3 == day_of_month(date) > most_frequent_day_dict[row.vendor]
      condition4 == row.invoice_bool = {1}
      condition5 == \E i \in row.invoice_date : month(i) = month(date) /\ year(i) = year(date)
      condition6 == \E i \in row.invoice_date : day_of_month(i) >= day_of_month(date)
  IN  \/ condition1 /\ condition2 /\ condition3
      \/ condition4 /\ condition5 /\ condition6 /\ condition3 /\ condition2

\* alarm_no_invoice_monthly; a comparison with NaN or NaT is false.
alarm_no_invoice_monthly(row, most_frequent_day_dict) ==
  LET date == row.daily_date
      condition1 == row.invoice_bool = {0}
      condition2 == row.consecutive = {MonthWindow}
      condition3 == day_of_month(date) > most_frequent_day_dict[row.vendor]
      condition4 == row.invoice_bool = {1}
      condition5 == \E i \in row.invoice_date : month(i) = month(date) /\ year(i) = year(date)
      condition6 == \E i \in row.invoice_date : day_of_month(i) > day_of_month(date)
  IN  \/ condition1 /\ condition2 /\ condition3
      \/ condition4 /\ condition5 /\ condition6 /\ condition3 /\ condition2

no_invoice_received_monthly(invoice) ==
  LET monthly_date_range == date_range_MS(min_invoice_date(invoice), max_invoice_date(invoice))
      most_frequent_day_dict ==
        [v \in Range(Column(invoice, "canonical_vendor_id")) |->
           most_frequent_day(invoice, v, "MS")]
      df == daily_frame(invoice,
                        period_frame(invoice, monthly_date_range, "MS", MonthWindow),
                        "MS")
      keep == SelectSeq(df, LAMBDA row : alarm_no_invoice_monthly(row, most_frequent_day_dict))
  IN  [n \in DOMAIN keep |->
         LET row == keep[n]
         IN  Glean(row.daily_date,
                   <<"T4", row.vendor, most_frequent_day_dict[row.vendor], row.daily_date>>,
                   4, 2, {}, row.vendor)]

\* ---------------------------------------------------------------------- D5

QuarterWindow == 2

\* alarm_no_invoice_quarterly.
alarm_no_invoice_quarterly(row, most_frequent_day_dict) ==
  LET date == row.daily_date
      d_day == day_of_quarter(date)
      condition1 == row.invoice_bool = {0}
      condition2 == row.consecutive = {QuarterWindow}
      condition3 == d_day > most_frequent_day_dict[row.vendor]
      condition4 == row.invoice_bool = {1}
      condition5 == \E i \in row.invoice_date : quarter(i) = quarter(date) /\ year(i) = year(date)
      condition6 == \E i \in row.invoice_date : day_of_quarter(i) > d_day
  IN  \/ condition1 /\ condition2 /\ condition3
      \/ condition4 /\ condition5 /\ condition6 /\ condition3 /\ condition2

no_invoice_received_quaterly(invoice) ==
  LET quarterly_date_range == date_range_QS(min_invoice_date(invoice), max_invoice_date(invoice))
      most_frequent_day_dict ==
        [v \in Range(Column(invoice, "canonical_vendor_id")) |->
           most_frequent_day(invoice, v, "QS")]
      df == daily_frame(invoice,
                        period_frame(invoice, quarterly_date_range, "QS", QuarterWindow),
                        "QS")
      keep == SelectSeq(df, LAMBDA row : alarm_no_invoice_quarterly(row, most_frequent_day_dict))
  IN  [n \in DOMAIN keep |->
         LET row == keep[n]
         IN  Glean(row.daily_date,
                   <<"T5", row.vendor, most_frequent_day_dict[row.vendor], row.daily_date>>,
                   4, 2, {}, row.vendor)]

\* ------------------------------------------------------------------ driver

\* concat, had glean_id counted from one.
concat_one_based(gleans) ==
  LET all == Concat(gleans)
  IN  [n \in DOMAIN all |->
         [glean_id |-> n,
          glean_date |-> all[n].glean_date, glean_text |-> all[n].glean_text,
          glean_type |-> all[n].glean_type, glean_location |-> all[n].glean_location,
          invoice_id |-> all[n].invoice_id,
          canonical_vendor_id |-> all[n].canonical_vendor_id]]

\* pd.concat(gleans), reset_index, glean_id = index.
concat(gleans) ==
  LET all == Concat(gleans)
  IN  [n \in DOMAIN all |->
         [glean_id |-> n - 1,
          glean_date |-> all[n].glean_date, glean_text |-> all[n].glean_text,
          glean_type |-> all[n].glean_type, glean_location |-> all[n].glean_location,
          invoice_id |-> all[n].invoice_id,
          canonical_vendor_id |-> all[n].canonical_vendor_id]]

\* ----------------------------------------------------------------- actions

read_raw_data ==
  /\ pc = "read"
  /\ invoice_df' = read_invoice(raw_invoice)
  /\ line_item_df' = read_line_item(raw_line_item)
  /\ pc' = "glean1"
  /\ UNCHANGED <<raw_invoice, raw_line_item, glean1, glean2, glean3, glean4, glean5,
                 glean_result>>

VendorNotSeen ==
  /\ pc = "glean1"
  /\ glean1' = vendor_not_seen_in_a_while(invoice_df)
  /\ pc' = "glean2"
  /\ UNCHANGED <<raw_invoice, raw_line_item, invoice_df, line_item_df,
                 glean2, glean3, glean4, glean5, glean_result>>

AccrualAlert ==
  /\ pc = "glean2"
  /\ glean2' = accrual_alert(invoice_df, line_item_df)
  /\ pc' = "glean3"
  /\ UNCHANGED <<raw_invoice, raw_line_item, invoice_df, line_item_df,
                 glean1, glean3, glean4, glean5, glean_result>>

LargeMonthIncrease ==
  /\ pc = "glean3"
  /\ glean3' = large_month_increase_mtd(invoice_df)
  /\ pc' = "glean4"
  /\ UNCHANGED <<raw_invoice, raw_line_item, invoice_df, line_item_df,
                 glean1, glean2, glean4, glean5, glean_result>>

NoInvoiceMonthly ==
  /\ pc = "glean4"
  /\ glean4' = no_invoice_received_monthly(invoice_df)
  /\ pc' = "glean5"
  /\ UNCHANGED <<raw_invoice, raw_line_item, invoice_df, line_item_df,
                 glean1, glean2, glean3, glean5, glean_result>>

NoInvoiceQuarterly ==
  /\ pc = "glean5"
  /\ glean5' = no_invoice_received_quaterly(invoice_df)
  /\ pc' = "concat"
  /\ UNCHANGED <<raw_invoice, raw_line_item, invoice_df, line_item_df,
                 glean1, glean2, glean3, glean4, glean_result>>

concat_gleans ==
  /\ pc = "concat"
  /\ glean_result' = concat(<<glean1, glean2, glean3, glean4, glean5>>)
  /\ pc' = "done"
  /\ UNCHANGED <<raw_invoice, raw_line_item, invoice_df, line_item_df,
                 glean1, glean2, glean3, glean4, glean5>>

Next ==
  \/ read_raw_data
  \/ VendorNotSeen
  \/ AccrualAlert
  \/ LargeMonthIncrease
  \/ NoInvoiceMonthly
  \/ NoInvoiceQuarterly
  \/ concat_gleans

\* ------------------------------------------------------------------ inputs

\* The state before the run: the two raw tables are on disk, nothing is
\* computed.  invoice_id is the row number, so it is unique.
Start(invoices, line_items) ==
  /\ pc = "read"
  /\ raw_invoice = invoices
  /\ raw_line_item = line_items
  /\ invoice_df = <<>>
  /\ line_item_df = <<>>
  /\ glean1 = <<>>
  /\ glean2 = <<>>
  /\ glean3 = <<>>
  /\ glean4 = <<>>
  /\ glean5 = <<>>
  /\ glean_result = <<>>

Row(vendor, date, end, amount) ==
  [canonical_vendor_id |-> vendor, invoice_date |-> date,
   period_end_date |-> end, total_amount |-> amount]

WithIds(t) ==
  [i \in DOMAIN t |->
     [invoice_id |-> i,
      canonical_vendor_id |-> t[i].canonical_vendor_id,
      invoice_date |-> t[i].invoice_date,
      period_end_date |-> t[i].period_end_date,
      total_amount |-> t[i].total_amount]]

\* The invoice tables of 1..n rows, each row drawn from rows.
InvoiceTables(n, rows) ==
  UNION {{WithIds(t) : t \in [1..len -> rows]} : len \in 1..n}

\* The line_item tables of 0..n rows.
LineItemTables(n, ids, ends) ==
  UNION {{[j \in 1..len |-> [invoice_id |-> f[j][1], period_end_date |-> f[j][2]]] :
            f \in [1..len -> ids \X ends]} :
         len \in 0..n}

\* The invoice tables that take, slot by slot and in that order, no row or
\* one row of the slot.
RECURSIVE Ledgers(_)
Ledgers(slots) ==
  IF slots = <<>> THEN {<<>>}
  ELSE LET rest == Ledgers(Tail(slots))
       IN  rest \cup {<<r>> \o t : r \in Head(slots), t \in rest}

LedgerTables(slots) == {WithIds(t) : t \in Ledgers(slots) \ {<<>>}}

\* D1: two vendors; invoice dates 90, 91 and 182 days after 2020-01-01.
InitD1 ==
  \E inv \in InvoiceTables(MaxInvoices,
         {Row(v, d, <<>>, 500) :
            v \in {1, 2},
            d \in {<<2020, 1, 1>>, <<2020, 3, 31>>, <<2020, 4, 1>>, <<2020, 7, 1>>}}) :
    Start(inv, <<>>)

SpecD1 == InitD1 /\ [][Next]_vars

\* D2: invoices of 2020-01-01 whose period ends never, 90 or 91 days later;
\* line items of invoice 1 or 2 whose period end is unparseable, 90 or 152
\* days after 2020-01-01.
InitD2 ==
  \E inv \in InvoiceTables(MaxInvoices,
         {Row(1, <<2020, 1, 1>>, e, 500) :
            e \in {<<>>, <<2020, 3, 31>>, <<2020, 4, 1>>}}) :
    \E li \in LineItemTables(MaxLineItems, {1, 2},
                              {<<2020, 2, 30>>, <<2020, 3, 31>>, <<2020, 6, 1>>}) :
      Start(inv, li)

SpecD2 == InitD2 /\ [][Next]_vars

\* D3: an invoice of vendor 1 in 2020-01 at most, then up to MaxLateInvoices
\* invoices in 2020-12, of vendor 1 with amounts in and between the bands or
\* of vendor 2.
MaxLateInvoices == 2

AmountsD3 == {50, 500, 3000, 10000, 500000}

InitD3 ==
  \E inv \in LedgerTables(
         <<{Row(1, <<2020, 1, 15>>, <<>>, a) : a \in AmountsD3}>>
         \o [i \in 1..MaxLateInvoices |->
               {Row(1, <<2020, 12, 15>>, <<>>, a) : a \in AmountsD3}
               \cup {Row(2, <<2020, 12, 15>>, <<>>, 3000)}]) :
    Start(inv, <<>>)

SpecD3 == InitD3 /\ [][Next]_vars

\* D4: month by month from 2020-01, no invoice or one invoice, of either
\* vendor, on the 10th or the 20th.
LedgerMonths == 4

InitD4 ==
  \E inv \in LedgerTables(
         [m \in 1..LedgerMonths |->
            {Row(v, <<2020, m, d>>, <<>>, 500) : v \in {1, 2}, d \in {10, 20}}]) :
    Start(inv, <<>>)

SpecD4 == InitD4 /\ [][Next]_vars

\* D5: two vendors; invoices on day 15 of Q1 and Q2, in the middle of Q1
\* and on day 40 of Q3 of 2020.
InitD5 ==
  \E inv \in InvoiceTables(MaxInvoices,
         {Row(v, d, <<>>, 500) :
            v \in {1, 2},
            d \in {<<2020, 1, 15>>, <<2020, 2, 15>>, <<2020, 4, 15>>, <<2020, 8, 9>>}}) :
    Start(inv, <<>>)

SpecD5 == InitD5 /\ [][Next]_vars

\* The whole engine: vendor 1 invoices on the 10th of 2020-01..04 (each may
\* be missing), then an invoice of either vendor on 2020-12-15, with or
\* without a period that ends in 2021-06; a line item of invoice 1 or none.
Init ==
  \E inv \in LedgerTables(
         [m \in 1..4 |-> {Row(1, <<2020, m, 10>>, <<>>, 500)}]
         \o <<{Row(v, <<2020, 12, 15>>, e, 3000) :
                 v \in {1, 2}, e \in {<<>>, <<2021, 6, 1>>}}>>) :
    \E li \in LineItemTables(1, {1}, {<<>>, <<2020, 6, 1>>}) :
      Start(inv, li)

Spec == Init /\ [][Next]_vars

\* ------------------------------------------------------------------ claims

\* The positions of concat_gleans after each detector has returned.
After1 == pc \in {"glean2", "glean3", "glean4", "glean5", "concat", "done"}

After2 == pc \in {"glean3", "glean4", "glean5", "concat", "done"}

After3 == pc \in {"glean4", "glean5", "concat", "done"}

After4 == pc \in {"glean5", "concat", "done"}

After5 == pc \in {"concat", "done"}

\* The input as the claims speak of it.
Vendors == Range(Column(invoice_df, "canonical_vendor_id"))

InvoicesOf(v) == {i \in DOMAIN invoice_df : invoice_df[i].canonical_vendor_id = v}

DatesOf(v) == {invoice_df[i].invoice_date : i \in InvoicesOf(v)}

DatesInMonth(v, mi) == {d \in DatesOf(v) : MonthIdx[d] = mi}

DatesInQuarter(v, qi) == {d \in DatesOf(v) : MonthIdx[d] \div 3 = qi}

DaysOfMonth(mi) == MonthStart[mi]..(MonthStart[mi + 1] - 1)

DaysOfQuarter(qi) == MonthStart[3 * qi]..(MonthStart[3 * qi + 3] - 1)

modal_day(v) == most_frequent_day(invoice_df, v, "MS")

modal_qday(v) == most_frequent_day(invoice_df, v, "QS")

GleanDates(gleans, v) ==
  {gleans[n].glean_date : n \in {k \in DOMAIN gleans : gleans[k].canonical_vendor_id = v}}

\* C1 (as claimed): a vendor with an invoice in each of the three months
\* before month m and none in m gets a D4 glean for every day of m whose day
\* of month is greater than the vendor's modal day.
C1_LateFireEveryDay ==
  After4 =>
    \A v \in Vendors : \A mi \in 3..(NumMonths - 1) :
      (/\ \A j \in 1..3 : DatesInMonth(v, mi - j) # {}
       /\ DatesInMonth(v, mi) = {})
      => \A d \in DaysOfMonth(mi) :
           day_of_month(d) > modal_day(v) => d \in GleanDates(glean4, v)

\* C2 (as claimed): a vendor with an invoice in each of the two quarters
\* before quarter q, whose first invoice in q falls on day k of the quarter,
\* k greater than its modal day of quarter, gets D5 gleans in q for exactly
\* the days strictly between the modal day and k.
C2_LaterThanUsualExactly ==
  After5 =>
    \A v \in Vendors : \A qi \in 2..((NumMonths \div 3) - 1) :
      (/\ \A j \in 1..2 : DatesInQuarter(v, qi - j) # {}
       /\ DatesInQuarter(v, qi) # {}
       /\ day_of_quarter(Min(DatesInQuarter(v, qi))) > modal_qday(v))
      => GleanDates(glean5, v) \cap DaysOfQuarter(qi)
           = {d \in DaysOfQuarter(qi) :
                /\ modal_qday(v) < day_of_quarter(d)
                /\ day_of_quarter(d) < day_of_quarter(Min(DatesInQuarter(v, qi)))}

\* C3: every D4 glean is dated on a day of month greater than the vendor's
\* modal day and, when the vendor has an invoice in the glean's month, before
\* the day of the month's first invoice.
C3_D4FiringDayBounds ==
  After4 =>
    \A n \in DOMAIN glean4 :
      LET v == glean4[n].canonical_vendor_id
          d == glean4[n].glean_date
          inMonth == DatesInMonth(v, MonthIdx[d])
      IN  /\ day_of_month(d) > modal_day(v)
          /\ inMonth # {} => day_of_month(d) < day_of_month(Min(inMonth))

\* C3's case: a D4 glean in a month in which the vendor has an invoice.
C3_Witness ==
  /\ After4
  /\ \E n \in DOMAIN glean4 :
       DatesInMonth(glean4[n].canonical_vendor_id, MonthIdx[glean4[n].glean_date]) # {}

\* The dates of a vendor's invoices that end a gap of more than 90 days,
\* the invoices taken in ascending order of date.
LongGapDates(v) ==
  {d \in DatesOf(v) :
     \E p \in DatesOf(v) :
       /\ p < d
       /\ \A q \in DatesOf(v) : ~(p < q /\ q < d)
       /\ d - p > 90}

\* C4: a vendor has one D1 glean per gap of more than 90 days between
\* consecutive invoices, and no other; the glean carries the date and the id
\* of an invoice of the vendor that ends the gap.
C4_D1Threshold ==
  After1 =>
    \A v \in Vendors :
      LET mine == {n \in DOMAIN glean1 : glean1[n].canonical_vendor_id = v}
      IN  /\ Cardinality(mine) = Cardinality(LongGapDates(v))
          /\ \A d \in LongGapDates(v) :
                Cardinality({n \in mine : glean1[n].glean_date = d}) = 1
          /\ \A n \in mine :
                \E i \in InvoicesOf(v) :
                  /\ glean1[n].invoice_id = {invoice_df[i].invoice_id}
                  /\ glean1[n].glean_date = invoice_df[i].invoice_date
                  /\ invoice_df[i].invoice_date \in LongGapDates(v)

\* C4's case: a vendor with a gap of exactly 90 days, or two invoices of the
\* same date, and a gap of more than 90 days that fired.
C4_Witness ==
  /\ After1
  /\ \E v \in Vendors :
       /\ LongGapDates(v) # {}
       /\ \E n \in DOMAIN glean1 : glean1[n].canonical_vendor_id = v
       /\ \E d \in DatesOf(v) : d - 90 \in DatesOf(v)

\* The period end dates that count for the invoice of row i: its own and
\* those of the line items joined to it, nulls left out.
EndDatesOf(i) ==
  invoice_df[i].period_end_date
  \cup UNION {line_item_df[j].period_end_date :
               j \in {k \in DOMAIN line_item_df :
                        line_item_df[k].invoice_id = invoice_df[i].invoice_id}}

\* C5: every invoice has exactly one D2 glean if the latest of its period
\* end dates is more than 90 days after its invoice date, and none
\* otherwise; the glean is dated on the invoice date.
C5_AccrualPerInvoice ==
  After2 =>
    \A i \in DOMAIN invoice_df :
      LET mine == {n \in DOMAIN glean2 : glean2[n].invoice_id = {invoice_df[i].invoice_id}}
          late == /\ EndDatesOf(i) # {}
                  /\ Max(EndDatesOf(i)) - invoice_df[i].invoice_date > 90
      IN  /\ Cardinality(mine) = (IF late THEN 1 ELSE 0)
          /\ \A n \in mine : glean2[n].glean_date = invoice_df[i].invoice_date

\* C5's case: an invoice with two line items that end more than 90 days
\* after it, and its one glean.
C5_Witness ==
  /\ After2
  /\ \E i \in DOMAIN invoice_df :
       /\ Cardinality({j \in DOMAIN line_item_df :
                         /\ line_item_df[j].invoice_id = invoice_df[i].invoice_id
                         /\ \E e \in line_item_df[j].period_end_date :
                              e - invoice_df[i].invoice_date > 90}) >= 2
       /\ \E n \in DOMAIN glean2 : glean2[n].invoice_id = {invoice_df[i].invoice_id}

\* The months of the monthly grid, by index, and a vendor's total in a month.
GridMonths ==
  MonthIdx[Min(UNION {DatesOf(v) : v \in Vendors})]
    ..(MonthIdx[Max(UNION {DatesOf(v) : v \in Vendors})] + 1)

MonthTotal(v, mi) ==
  SumOver(Column(invoice_df, "total_amount"),
          {i \in InvoicesOf(v) : MonthIdx[invoice_df[i].invoice_date] = mi})

\* The sum of a vendor's twelve monthly totals that end at month mi.
YearTotal(v, mi) == SumOver([j \in (mi - 11)..mi |-> MonthTotal(v, j)], (mi - 11)..mi)

\* The firing predicate of the claim, mu being s / 12.
C6_Fires(x, s) ==
  /\ x >= 100
  /\ \/ x > 10000 /\ 24 * x > s
     \/ 1000 < x /\ x < 10000 /\ 12 * x > 2 * s
     \/ x < 1000 /\ 12 * x > 5 * s

\* C6: a D3 glean for vendor v dated on grid month m is emitted (once) iff
\* the twelve-month mean at m is defined and the month's total is at least
\* 100 and lies in a band whose multiple of the mean it exceeds; no D3 glean
\* is dated off the grid.
C6_D3FiringPredicate ==
  After3 =>
    /\ \A v \in Vendors : \A mi \in GridMonths :
         LET mine == {n \in DOMAIN glean3 :
                        /\ glean3[n].canonical_vendor_id = v
                        /\ glean3[n].glean_date = MonthStart[mi]}
             defined == mi - 11 >= Min(GridMonths)
         IN  Cardinality(mine) =
               (IF defined /\ C6_Fires(MonthTotal(v, mi), YearTotal(v, mi)) THEN 1 ELSE 0)
    /\ \A n \in DOMAIN glean3 :
         /\ glean3[n].canonical_vendor_id \in Vendors
         /\ \E mi \in GridMonths : glean3[n].glean_date = MonthStart[mi]

\* C6's case: a D3 glean, beside a month whose mean is defined and whose
\* total is exactly 1000 or 10000.
C6_Witness ==
  /\ After3
  /\ glean3 # <<>>
  /\ \E v \in Vendors : \E mi \in GridMonths :
       mi - 11 >= Min(GridMonths) /\ MonthTotal(v, mi) \in {1000, 10000}

\* The detector a row of the output comes from, by its text's template.
DetectorOf(g) ==
  CHOOSE k \in 1..5 : g.glean_text[1] = <<"T1", "T2", "T3", "T4", "T5">>[k]

\* C7: in the output invoice_id is non-null iff glean_location is 1; the
\* D1 and D2 gleans have location 1 and the id of an input invoice, the D3,
\* D4 and D5 gleans location 2 and a null id.
C7_ScopeDiscipline ==
  /\ \A n \in DOMAIN glean_result :
       glean_result[n].invoice_id # {} <=> glean_result[n].glean_location = 1
  /\ \A g \in Range(glean1) \cup Range(glean2) :
       /\ g.glean_location = 1
       /\ \E i \in DOMAIN invoice_df : g.invoice_id = {invoice_df[i].invoice_id}
  /\ \A g \in Range(glean3) \cup Range(glean4) \cup Range(glean5) :
       g.glean_location = 2 /\ g.invoice_id = {}

\* C7's case: an output with invoice-scoped and vendor-scoped gleans.
C7_Witness ==
  /\ pc = "done"
  /\ \E n \in DOMAIN glean_result : glean_result[n].glean_location = 1
  /\ \E n \in DOMAIN glean_result : glean_result[n].glean_location = 2

\* The row of the detectors' outputs that stands at position n of their
\* concatenation in the order D1..D5.
RowAt(n) ==
  LET l1 == Len(glean1)
      l2 == l1 + Len(glean2)
      l3 == l2 + Len(glean3)
      l4 == l3 + Len(glean4)
  IN  IF n <= l1 THEN glean1[n]
      ELSE IF n <= l2 THEN glean2[n - l1]
      ELSE IF n <= l3 THEN glean3[n - l2]
      ELSE IF n <= l4 THEN glean4[n - l3]
      ELSE glean5[n - l4]

\* C8: the output is the rows of D1, D2, D3, D4, D5 in that order, so the
\* detector and the glean_type never decrease along it, and glean_id is the
\* zero-based position of the row.
C8_DriverOrdering ==
  pc = "done" =>
    /\ Len(glean_result) =
         Len(glean1) + Len(glean2) + Len(glean3) + Len(glean4) + Len(glean5)
    /\ \A n \in DOMAIN glean_result :
         /\ glean_result[n].glean_id = n - 1
         /\ \A f \in DOMAIN RowAt(n) : glean_result[n][f] = RowAt(n)[f]
    /\ \A n \in DOMAIN glean_result : \A k \in 1..(n - 1) :
         /\ DetectorOf(glean_result[k]) <= DetectorOf(glean_result[n])
         /\ glean_result[k].glean_type <= glean_result[n].glean_type

\* C8's case: an output to which all five detectors contribute.
C8_Witness ==
  /\ pc = "done"
  /\ \A k \in 1..5 : \E n \in DOMAIN glean_result : DetectorOf(glean_result[n]) = k

\* C9: every glean is dated from the first day of the month of the earliest
\* invoice to the first day of the month after the month of the latest.
C9_GleanDateRange ==
  pc # "read" =>
    LET dates == UNION {DatesOf(v) : v \in Vendors}
        lo == MonthStart[MonthIdx[Min(dates)]]
        hi == MonthStart[MonthIdx[Max(dates)] + 1]
    IN  \A g \in Range(glean1) \cup Range(glean2) \cup Range(glean3)
                 \cup Range(glean4) \cup Range(glean5) \cup Range(glean_result) :
          lo <= g.glean_date /\ g.glean_date <= hi

\* C9's case: an output with a glean of each scope, one of them dated after
\* the vendor's last invoice.
C9_Witness ==
  /\ pc = "done"
  /\ \E n \in DOMAIN glean_result : DetectorOf(glean_result[n]) \in {1, 2}
  /\ \E n \in DOMAIN glean_result :
       /\ DetectorOf(glean_result[n]) \in {4, 5}
       /\ glean_result[n].glean_date > Max(DatesOf(glean_result[n].canonical_vendor_id))

\* C10 (as claimed): with two or more vendors, a D5 glean for vendor v dated
\* in quarter q is emitted only if v has an invoice in each of the two
\* quarters before q.
C10_D5StreakPerVendor ==
  (After5 /\ Cardinality(Vendors) >= 2) =>
    \A n \in DOMAIN glean5 :
      LET v == glean5[n].canonical_vendor_id
          qi == MonthIdx[glean5[n].glean_date] \div 3
      IN  /\ qi >= 2
          /\ DatesInQuarter(v, qi - 1) # {}
          /\ DatesInQuarter(v, qi - 2) # {}

\* The frame of no_invoice_received_monthly, by vendor and grid month, with
\* the shifted streak in its column consecutive (the window's sum).
MonthlyFrame ==
  period_frame(invoice_df,
               date_range_MS(min_invoice_date(invoice_df), max_invoice_date(invoice_df)),
               "MS", MonthWindow)

\* C11 (as claimed): with two or more vendors, the streak of vendor v at a
\* grid month is 1 iff v has an invoice in each of the three months before
\* it, and is undefined at the first three grid months of every vendor;
\* hence a D4 glean for v is dated only in a month whose three preceding
\* months each hold an invoice of v.
C11_D4StreakPerVendor ==
  (After4 /\ Cardinality(Vendors) >= 2) =>
    /\ \A r \in DOMAIN MonthlyFrame :
         LET v == MonthlyFrame[r].vendor
             mi == MonthIdx[MonthlyFrame[r].period]
         IN  /\ MonthlyFrame[r].consecutive = {3}
                  <=> \A j \in 1..3 : DatesInMonth(v, mi - j) # {}
             /\ mi - Min(GridMonths) < 3 => MonthlyFrame[r].consecutive = {}
    /\ \A n \in DOMAIN glean4 :
         \A j \in 1..3 :
           DatesInMonth(glean4[n].canonical_vendor_id,
                        MonthIdx[glean4[n].glean_date] - j) # {}

====
